---- MODULE Spec2Model ----
(***************************************************************************)
(* Model of api/index.py: the PDF inspection-report extraction service.    *)
(*                                                                         *)
(* Representation.  A Python str is a sequence of characters; a character  *)
(* is a one-character TLA+ string, or "U+XXXX" for a non-ASCII code point. *)
(* The empty str '' is << >>.  A line of page text is kept as the sequence *)
(* of its whitespace-separated tokens (what str.split() returns).          *)
(***************************************************************************)
EXTENDS Integers, Sequences, FiniteSets, TLC

(***************************************************************************)
(* Characters and the regular expressions of the source                    *)
(***************************************************************************)
Digits == {"0", "1", "2", "3", "4", "5", "6", "7", "8", "9"}

UpperSeq == <<"A", "B", "C", "D", "E", "F", "G", "H", "I", "J", "K", "L", "M",
              "N", "O", "P", "Q", "R", "S", "T", "U", "V", "W", "X", "Y", "Z">>

LowerSeq == <<"a", "b", "c", "d", "e", "f", "g", "h", "i", "j", "k", "l", "m",
              "n", "o", "p", "q", "r", "s", "t", "u", "v", "w", "x", "y", "z">>

Letters == {UpperSeq[i] : i \in 1..26} \cup {LowerSeq[i] : i \in 1..26}

\* str.lower() on one character
LowerChar(c) ==
    IF \E i \in 1..26 : UpperSeq[i] = c
    THEN LowerSeq[CHOOSE i \in 1..26 : UpperSeq[i] = c]
    ELSE c

Lower(s) == [i \in 1..Len(s) |-> LowerChar(s[i])]

\* The two bracket classes of measurement_char_pattern, restricted to the
\* characters the model uses.  U+221A is in the class; U+00D8 (the diameter
\* sign) is not.
MeasGlyphs == {"P", "p", "0", "4", "K", "U+221A"}

\* The bracket class of the first symbol pattern of is_symbol, restricted to
\* the characters the model uses.
SymbolGlyphs == {"U+221A"}

AllDigits(t) == \A i \in 1..Len(t) : t[i] \in Digits

\* str.isdigit(), and the regex \d+ anchored at both ends
isdigit(t) == Len(t) > 0 /\ AllDigits(t)

AllLetters(t) == \A i \in 1..Len(t) : t[i] \in Letters

DigitVal(c) == CHOOSE n \in 0..9 : ToString(n) = c

\* int(text) for a digit-only text
RECURSIVE int(_)
int(t) ==
    IF Len(t) = 0 THEN 0
    ELSE 10 * int(SubSeq(t, 1, Len(t) - 1)) + DigitVal(t[Len(t)])

Rest(t, k) == SubSeq(t, k + 1, Len(t))

\* ^\d{1,3}(?:\.\d+)?$
MatchShortNumber(t) ==
    \/ isdigit(t) /\ Len(t) <= 3
    \/ \E k \in 2..Len(t) :
          /\ t[k] = "."
          /\ isdigit(SubSeq(t, 1, k - 1)) /\ k - 1 <= 3
          /\ isdigit(Rest(t, k))

\* measurement_char_pattern.match(text)
measurement_char_pattern(t) ==
    \/ MatchShortNumber(t)
    \/ Len(t) \in 1..3 /\ AllLetters(t)
    \/ Len(t) = 1 /\ t[1] \in MeasGlyphs

\* re.match(r'^\d+\.?\d*$', text)
MatchLeadingNumber(t) ==
    \E k \in 1..Len(t) :
       /\ isdigit(SubSeq(t, 1, k))
       /\ \/ k = Len(t)
          \/ t[k + 1] = "." /\ AllDigits(Rest(t, k + 1))

\* re.match(r'^\d{1,3}$', text) and 1 <= int(text) <= 200
IsRowNumber(t) ==
    /\ isdigit(t) /\ Len(t) <= 3
    /\ int(t) >= 1 /\ int(t) <= 200

\* is_number: ^\d+(\.\d+)?$
is_number(t) ==
    \/ isdigit(t)
    \/ \E k \in 2..Len(t) :
          t[k] = "." /\ isdigit(SubSeq(t, 1, k - 1)) /\ isdigit(Rest(t, k))

\* is_symbol: one of the three symbol patterns, and not a number
is_symbol(t) ==
    /\ \/ Len(t) >= 1 /\ t[1] \in SymbolGlyphs
       \/ Len(t) \in 1..4 /\ AllLetters(t)
       \/ t = <<"B", "U", "R", "R">>
    /\ ~is_number(t)

\* \d*\.?\d+ anchored at both ends
MatchUnsignedTolerance(b) ==
    \E k \in 0..Len(b) :
       /\ AllDigits(SubSeq(b, 1, k))
       /\ \/ isdigit(Rest(b, k))
          \/ k < Len(b) /\ b[k + 1] = "." /\ isdigit(Rest(b, k + 1))

\* is_tolerance: ^[+\-]?\d*\.?\d+$  or  ^[+\-]0\.\d+$
is_tolerance(t) ==
    \/ MatchUnsignedTolerance(t)
    \/ Len(t) >= 1 /\ t[1] \in {"+", "-"} /\ MatchUnsignedTolerance(Tail(t))
    \/ /\ Len(t) >= 4 /\ t[1] \in {"+", "-"} /\ t[2] = "0" /\ t[3] = "."
       /\ isdigit(Rest(t, 3))

\* The unsigned decimal literals float() accepts: digits with at most one
\* point and at least one digit.  Exponent, inf/nan and underscore forms
\* are not written by any token of the model.
IsDecimalBody(b) ==
    /\ \A i \in 1..Len(b) : b[i] \in Digits \cup {"."}
    /\ Cardinality({i \in 1..Len(b) : b[i] = "."}) <= 1
    /\ \E i \in 1..Len(b) : b[i] \in Digits

IntegerPart(b) ==
    IF \E i \in 1..Len(b) : b[i] = "."
    THEN SubSeq(b, 1, (CHOOSE i \in 1..Len(b) : b[i] = ".") - 1)
    ELSE b

\* is_measurement_value: float(text) succeeds and 0 < val < 1000
is_measurement_value(t) ==
    LET signed == Len(t) >= 1 /\ t[1] \in {"+", "-"}
        body   == IF signed THEN Tail(t) ELSE t
    IN  /\ IsDecimalBody(body)
        /\ ~(signed /\ t[1] = "-")
        /\ \E i \in 1..Len(body) : body[i] \in Digits \ {"0"}
        /\ int(IntegerPart(body)) < 1000

(***************************************************************************)
(* Stable sort, as sorted() and list.sort() with a key                     *)
(***************************************************************************)
\* Insert the keyed element e behind the last element whose key does not
\* exceed e's
InsertByKey(sorted, e) ==
    LET k == Cardinality({j \in 1..Len(sorted) : sorted[j].key <= e.key})
    IN  SubSeq(sorted, 1, k) \o <<e>> \o SubSeq(sorted, k + 1, Len(sorted))

\* s sorted by keys, keys[i] being the key of s[i]; equal keys keep their order
StableSortBy(s, keys) ==
    LET F[i \in 0..Len(s)] ==
            IF i = 0 THEN << >>
            ELSE InsertByKey(F[i - 1], [key |-> keys[i], item |-> s[i]])
    IN  [i \in 1..Len(s) |-> F[Len(s)][i].item]

\* sorted(S) for a set of integers
RECURSIVE SortedSet(_)
SortedSet(S) ==
    IF S = {} THEN << >>
    ELSE LET m == CHOOSE x \in S : \A y \in S : x <= y
         IN  <<m>> \o SortedSet(S \ {m})

RECURSIVE Flatten(_)
Flatten(ss) == IF ss = << >> THEN << >> ELSE Head(ss) \o Flatten(Tail(ss))

(***************************************************************************)
(* extract_measurement_data_with_coords                                    *)
(***************************************************************************)
\* round(w[1]): Python rounds halves to the even neighbour.  The vertical
\* coordinate of a word is kept in half units (y2 = 2 * y).
round(y2) ==
    IF y2 % 2 = 0 THEN y2 \div 2
    ELSE LET lo == (y2 - 1) \div 2 IN IF lo % 2 = 0 THEN lo ELSE lo + 1

WordX(w) == w.x

\* lines[round(w[1])].append(w), then sorted(lines.keys())
LineKeys(words) == SortedSet({round(words[i].y2) : i \in 1..Len(words)})

\* line_words sorted by x, then the texts that match the pattern
text_line(words, y) ==
    LET on_line(w) == round(w.y2) = y
        on_y       == SelectSeq(words, on_line)
        line_words == StableSortBy(on_y, [i \in 1..Len(on_y) |-> WordX(on_y[i])])
        texts      == [i \in 1..Len(line_words) |-> line_words[i].text]
    IN  SelectSeq(texts, measurement_char_pattern)

entries_to_process(tl) ==
    IF 12 <= Len(tl) /\ Len(tl) <= 14
    THEN LET split_point == Len(tl) \div 2
         IN  <<SubSeq(tl, 1, split_point), SubSeq(tl, split_point + 1, Len(tl))>>
    ELSE IF 6 <= Len(tl) /\ Len(tl) <= 7 THEN <<tl>> ELSE << >>

At(s, i) == IF i <= Len(s) THEN s[i] ELSE << >>

\* The body of the loop over entries_to_process: zero or one record
CoordsEntry(entry_words) ==
    IF Len(entry_words) < 2 THEN << >>
    ELSE LET no      == Head(entry_words)
             after   == Tail(entry_words)
             has_sym == after # << >> /\ ~MatchLeadingNumber(after[1])
             sym     == IF has_sym THEN after[1] ELSE << >>
             ew      == IF has_sym THEN Tail(after) ELSE after
         IN  IF Len(ew) >= 5
             THEN <<[no |-> no, sym |-> sym,
                     dimension |-> At(ew, 1), upper |-> At(ew, 2),
                     lower |-> At(ew, 3), pos |-> At(ew, 4),
                     measured_by_vendor |-> At(ew, 5),
                     measured_by_denso |-> At(ew, 6),
                     assessment |-> At(ew, 7)]>>
             ELSE << >>

\* The records one visual line contributes.  No statement of the try block
\* can raise: pop(0) is only applied to a non-empty list.
CoordsLine(tl) ==
    LET es == entries_to_process(tl)
    IN  Flatten([i \in 1..Len(es) |-> CoordsEntry(es[i])])

(***************************************************************************)
(* parse_measurement_row / parse_single_measurement                        *)
(***************************************************************************)
EmptyMeasurement ==
    [no |-> << >>, sym |-> << >>, dimension |-> << >>, upper |-> << >>,
     lower |-> << >>, pos |-> << >>, measured_by_vendor |-> << >>,
     measured_by_denso |-> << >>, assessment |-> << >>]

\* if idx < len(remaining) and <test>(remaining[idx]):
\*     measurement[<field>] = remaining[idx]; idx += 1
\* (test[i] is the outcome of <test> on remaining[i])
TakeField(st, field, test) ==
    IF st.idx < Len(st.remaining) /\ test[st.idx + 1]
    THEN [st EXCEPT !.measurement = [@ EXCEPT ![field] = st.remaining[st.idx + 1]],
                    !.idx = @ + 1]
    ELSE st

SymbolTest(t) == is_symbol(t) /\ ~is_number(t)

PositionTest(t) == ~is_number(t) /\ ~is_measurement_value(t)

AnyText(t) == TRUE

\* Returns a sequence: << >> for None, <<m>> for a measurement
parse_single_measurement(row_texts) ==
    IF Len(row_texts) < 2 THEN << >>
    ELSE
    LET rem == Tail(row_texts)
        On(test(_)) == [i \in 1..Len(rem) |-> test(rem[i])]
        s0 == [remaining |-> rem, idx |-> 0,
               measurement |-> [EmptyMeasurement EXCEPT !.no = row_texts[1]]]
        s1 == TakeField(s0, "sym", On(SymbolTest))
        s2 == TakeField(s1, "dimension", On(is_number))
        s3 == TakeField(s2, "upper", On(is_tolerance))
        s4 == TakeField(s3, "lower", On(is_tolerance))
        s5 == TakeField(s4, "pos", On(PositionTest))
        s6 == TakeField(s5, "measured_by_vendor", On(is_measurement_value))
        s7 == TakeField(s6, "measured_by_denso", On(is_measurement_value))
        s8 == TakeField(s7, "assessment", On(AnyText))
    IN  <<s8.measurement>>

parse_measurement_row(texts) ==
    LET row_positions == SortedSet({i \in 1..Len(texts) : IsRowNumber(texts[i])})
        end_pos(i) == IF i + 1 <= Len(row_positions)
                      THEN row_positions[i + 1] - 1 ELSE Len(texts)
    IN  Flatten([i \in 1..Len(row_positions) |->
                   parse_single_measurement(
                       SubSeq(texts, row_positions[i], end_pos(i)))])

\* re.match(r'^\d+\s+', line.strip()): the first token is all digits and
\* whitespace, hence a second token, follows it
LineStartsWithNumber(line) == Len(line) >= 2 /\ isdigit(line[1])

\* The fallback loop of extract_table_data_from_page over the text lines
PlainTextStrategy(lines) ==
    Flatten([i \in 1..Len(lines) |->
               IF LineStartsWithNumber(lines[i])
               THEN parse_measurement_row(lines[i]) ELSE << >>])

\* The whole coordinate strategy on a page's words
extract_measurement_data_with_coords(words) ==
    LET ys == LineKeys(words)
    IN  Flatten([i \in 1..Len(ys) |-> CoordsLine(text_line(words, ys[i]))])

(***************************************************************************)
(* File names                                                              *)
(***************************************************************************)
HasChar(s, c) == \E i \in 1..Len(s) : s[i] = c

LastIndexOf(s, c) == CHOOSE i \in 1..Len(s) : s[i] = c /\ \A j \in (i + 1)..Len(s) : s[j] # c

\* '.' in filename and filename.rsplit('.', 1)[1].lower() in ALLOWED_EXTENSIONS
allowed_file(filename) ==
    /\ HasChar(filename, ".")
    /\ Lower(Rest(filename, LastIndexOf(filename, "."))) = <<"p", "d", "f">>

\* The positions where CAV-(\d+) matches, ignoring case
CavMatchAt(f, i) ==
    /\ i + 4 <= Len(f)
    /\ Lower(SubSeq(f, i, i + 3)) = <<"c", "a", "v", "-">>
    /\ f[i + 4] \in Digits

\* The greedy digit run that starts at position i
DigitRun(f, i) ==
    LET e == CHOOSE k \in i..Len(f) :
                 /\ AllDigits(SubSeq(f, i, k))
                 /\ (k = Len(f) \/ f[k + 1] \notin Digits)
    IN  SubSeq(f, i, e)

\* os.path.basename, then os.path.splitext(...)[0]: cut at the last dot
\* unless only dots precede it
FilenameStem(f) ==
    LET base == IF HasChar(f, "/") THEN Rest(f, LastIndexOf(f, "/")) ELSE f
    IN  IF HasChar(base, ".")
        THEN LET d == LastIndexOf(base, ".")
             IN  IF \E j \in 1..(d - 1) : base[j] # "."
                 THEN SubSeq(base, 1, d - 1) ELSE base
        ELSE base

extract_cavity_number_from_filename(filename) ==
    IF \E i \in 1..Len(filename) : CavMatchAt(filename, i)
    THEN LET i == CHOOSE k \in 1..Len(filename) :
                      CavMatchAt(filename, k)
                      /\ \A j \in 1..(k - 1) : ~CavMatchAt(filename, j)
         IN  <<"C", "A", "V", "-">> \o DigitRun(filename, i + 4)
    ELSE FilenameStem(filename)

(***************************************************************************)
(* process_pdf_data: header, deduplication and sort                        *)
(***************************************************************************)
\* extract_header_data is a fixed set of regex lookups over the first
\* page's text; no property below reads a header field, so the header is
\* kept as the text it was computed from.
extract_header_data(page_text) == [first_page_text |-> page_text]

\* A faulty variant of DedupKey: the key also takes the position tag
DedupKey_WithPos(m) == <<m.no, m.dimension, m.measured_by_vendor, m.pos>>

\* key = (measurement['no'], measurement['dimension'],
\*        measurement['measured_by_vendor'])
DedupKey(m) == <<m.no, m.dimension, m.measured_by_vendor>>

\* A faulty variant of Deduplicate: the last record of a key is the one kept
Deduplicate_LastWins(all) ==
    LET keep(i) == \A j \in (i + 1)..Len(all) :
                       <<all[j].no, all[j].dimension, all[j].measured_by_vendor>>
                       # <<all[i].no, all[i].dimension, all[i].measured_by_vendor>>
        F[i \in 0..Len(all)] ==
            IF i = 0 THEN << >>
            ELSE IF keep(i) THEN Append(F[i - 1], all[i]) ELSE F[i - 1]
    IN  F[Len(all)]

\* The loop over all_measurements with the seen set
Deduplicate(all) ==
    LET F[i \in 0..Len(all)] ==
            IF i = 0 THEN [seen |-> {}, unique |-> << >>]
            ELSE LET prev == F[i - 1]
                     key  == DedupKey(all[i])
                 IN  IF key \notin prev.seen
                     THEN [seen |-> prev.seen \cup {key},
                           unique |-> Append(prev.unique, all[i])]
                     ELSE prev
    IN  F[Len(all)].unique

\* key=lambda x: int(x['no']) if x['no'].isdigit() else 0
SortKey(m) == IF isdigit(m.no) THEN int(m.no) ELSE 0

\* A faulty variant of SortMeasurements: the list stays in accumulation order
SortMeasurements_Unsorted(ms) == ms

\* unique_measurements.sort(key=...)
SortMeasurements(ms) == StableSortBy(ms, [i \in 1..Len(ms) |-> SortKey(ms[i])])

(***************************************************************************)
(* Bounds and the uploaded documents the model draws from                  *)
(***************************************************************************)
\* Most files in one batch request
MaxFiles == 3

\* Most pages after the first page in a document
MaxMeasPages == 2

\* app.config['MAX_CONTENT_LENGTH'] and the per-file limit, in bytes
MaxBytes == 10 * 1024 * 1024

t1 == <<"1">>
t2 == <<"2">>
t3 == <<"3">>
t4 == <<"4">>
t5 == <<"5">>
t6 == <<"6">>
t7 == <<"7">>
t8 == <<"8">>
t9 == <<"9">>
t10 == <<"1", "0">>
t20 == <<"2", "0">>
t0p1 == <<"0", ".", "1">>
t0p2 == <<"0", ".", "2">>
t0p5 == <<"0", ".", "5">>
t9p4 == <<"9", ".", "4">>
t9p7 == <<"9", ".", "7">>
t9p8 == <<"9", ".", "8">>
t9p89 == <<"9", ".", "8", "9">>
tA == <<"A">>
tB == <<"B">>
tC == <<"C">>
tAB == <<"A", "B">>
tRoot == <<"U+221A">>
tDia == <<"U+00D8">>
tPlus == <<"+", "0", ".", "0", "1", "2">>
tMinus == <<"-", "0", ".", "5">>
tTop == <<"T", "o", "p">>
tBottom == <<"B", "o", "t", "t", "o", "m">>
tNote == <<"n", "o", "t", "e">>

\* A table row as the document shows it: the fields in column order, << >>
\* for an absent optional field
TableRow(no, sym, dimension, upper, lower, pos, vendor) ==
    [no |-> no, sym |-> sym, dimension |-> dimension, upper |-> upper,
     lower |-> lower, pos |-> pos, measured_by_vendor |-> vendor,
     measured_by_denso |-> << >>, assessment |-> << >>]

\* The tokens a table row is printed as
RowTokens(r) ==
    SelectSeq(<<r.no, r.sym, r.dimension, r.upper, r.lower, r.pos,
                r.measured_by_vendor>>, LAMBDA t : t # << >>)

SpecExampleRow == TableRow(t1, tDia, t10, tPlus, tMinus, tBottom, t9p89)
FullRow        == TableRow(t1, tA, t10, t0p1, t0p2, tB, t9p8)
NoSymPosRow    == TableRow(t9, << >>, t10, t0p1, t0p2, << >>, t9p8)
TextOnlyRow    == TableRow(t7, tA, t0p5, tPlus, tMinus, tTop, t9p4)

CanonicalRows == {SpecExampleRow, FullRow, NoSymPosRow, TextOnlyRow}

\* The positioned words of a page whose visual rows are the given token
\* lists: row r sits at y = 10r, every other word half a unit lower, and
\* the words of a row arrive right to left.
MkWords(rows) ==
    Flatten([r \in 1..Len(rows) |->
        [k \in 1..Len(rows[r]) |->
            LET i == Len(rows[r]) - k + 1
            IN  [x |-> 10 * i, y2 |-> 20 * r + (i % 2), text |-> rows[r][i]]]])

\* bad: which get_text call of the page raises ("none", "words", "text")
MkPage(rows, lines, bad) == [words |-> MkWords(rows), text |-> lines, bad |-> bad]

RowPage(r) == MkPage(<<RowTokens(r)>>, <<RowTokens(r)>>, "none")

Row6_2   == <<t2, t20, t0p1, t0p2, tB, t9p7>>
Row6_3   == <<t3, t20, t0p1, t0p2, tC, t9p7>>
Row7_4   == <<t4, tRoot, t10, t0p1, t0p2, tB, t9p8>>
Row6s_5  == <<t5, tA, t10, t0p1, t0p2, t9p8>>
Row7_6   == <<t6, t10, t0p1, t0p2, tB, t9p8, t9p7>>
RowAB    == <<tAB, t10, t0p1, t0p2, tB, t9p8>>
Row8     == <<t8, tA, t10, t0p1, t0p2, tB, t9p8, t9p7>>

PgHeader    == MkPage(<< >>, <<<<tNote>>>>, "none")
PgHeaderBad == MkPage(<< >>, <<<<tNote>>>>, "text")
PgFull      == RowPage(FullRow)
PgDupPos    == RowPage(TableRow(t1, tA, t10, t0p1, t0p2, tC, t9p8))
PgDupVendor == MkPage(<<RowTokens(TableRow(t1, tA, t10, t0p1, t0p2, tB, t9p7)),
                        RowTokens(TableRow(t1, tA, t10, t0p1, t0p2, tC, t9p7))>>,
                      << >>, "none")
PgTwoRows   == MkPage(<<Row6_2, RowAB, <<tBottom, tPlus>>>>, << >>, "none")
PgDouble13  == MkPage(<<Row6_3 \o Row7_4>>, << >>, "none")
PgDouble13s == MkPage(<<Row6s_5 \o Row7_6, Row8>>, << >>, "none")
PgText      == MkPage(<<<<tBottom, tPlus, tMinus>>>>,
                      <<RowTokens(TextOnlyRow), <<tNote, t1>>, <<t8, tNote>>>>, "none")
PgSpec      == RowPage(SpecExampleRow)
PgNoSymPos  == RowPage(NoSymPosRow)
PgTextOnly  == RowPage(TextOnlyRow)
PgBadWords  == MkPage(<<RowTokens(FullRow)>>, <<RowTokens(FullRow)>>, "words")
PgBadText   == MkPage(<<Row8>>, <<RowTokens(TextOnlyRow)>>, "text")
PgEmpty     == MkPage(<< >>, << >>, "none")

FirstPages == {PgHeader, PgHeaderBad, PgSpec}

MeasPages == {PgFull, PgDupPos, PgDupVendor, PgTwoRows, PgDouble13,
              PgDouble13s, PgText, PgSpec, PgNoSymPos, PgTextOnly,
              PgBadWords, PgBadText, PgEmpty}

RECURSIVE SeqsUpTo(_, _)
SeqsUpTo(S, n) ==
    IF n = 0 THEN {<< >>}
    ELSE LET P == SeqsUpTo(S, n - 1)
         IN  P \cup {Append(q, e) : q \in {r \in P : Len(r) = n - 1}, e \in S}

\* The page sequences of the documents: none, or a first page and up to
\* MaxMeasPages further pages
Docs == {<< >>} \cup
        {<<fp>> \o rest : fp \in FirstPages, rest \in SeqsUpTo(MeasPages, MaxMeasPages)}

NameA   == <<"a", "C", "A", "V", "-", "1", ".", "p", "d", "f">>
NameB   == <<"b", "c", "a", "v", "-", "1", ".", "P", "D", "F">>
NameX   == <<"x", ".", "p", "d", "f">>
NameTxt == <<"n", ".", "t", "x", "t">>
NameBig == <<"b", "i", "g", ".", "p", "d", "f">>
NameC   == <<"c", ".", "p", "d", "f">>

\* An uploaded file: its name, its length in bytes, whether fitz.open
\* rejects the bytes, and the pages of the document.  The names used are
\* ones werkzeug's secure_filename leaves unchanged.
MkFile(name, size, corrupt, pages) ==
    [filename |-> name, size |-> size, corrupt |-> corrupt, pages |-> pages]

FileA    == MkFile(NameA, 1000, FALSE, <<PgHeader, PgFull>>)
FileB    == MkFile(NameB, 1000, FALSE, <<PgHeader, PgTwoRows>>)
FileX    == MkFile(NameX, MaxBytes, FALSE, <<PgHeader, PgFull>>)
FileTxt  == MkFile(NameTxt, 1000, FALSE, <<PgHeader, PgFull>>)
FileBig  == MkFile(NameBig, MaxBytes + 1, FALSE, <<PgHeader, PgFull>>)
FileC    == MkFile(NameC, 1000, TRUE, << >>)
FileNone == MkFile(<< >>, 0, FALSE, << >>)

BatchFiles == {FileA, FileB, FileX, FileTxt, FileBig, FileC, FileNone}

\* The requests: any batch of up to MaxFiles of the batch files (the empty
\* one is a request without a 'files' field), and every document alone
Requests ==
    SeqsUpTo(BatchFiles, MaxFiles) \cup {<<MkFile(NameX, 1000, FALSE, d)>> : d \in Docs}

(***************************************************************************)
(* State                                                                   *)
(***************************************************************************)
VARIABLES
    files,                  \* request.files.getlist('files')
    pc,                     \* the statement process_pdf is at
    fi,                     \* position of the for loop over files (1-based)
    all_data,               \* dict cavity_id -> entry
    successful_extractions,
    errors,
    response,               \* what process_pdf returned
    open_docs,              \* files whose fitz document is open
    closed_docs,            \* files whose fitz document was closed
    cavity_id,              \* locals of process_pdf_data
    header_data,
    page_num,               \* 0-based, as in the source
    all_measurements,
    unique_measurements,
    line_idx,               \* visual lines of the page already processed
    measurements,           \* local of extract_table_data_from_page
    measurements_on_page,   \* its return value for the last page
    strategies_run,         \* history: strategies tried on the current page
    last_line,              \* history: last visual line and its records
    attempted,              \* history: files the loop has reached
    succeeded               \* history: file index and record count of each success

vars == <<files, pc, fi, all_data, successful_extractions, errors, response,
          open_docs, closed_docs, cavity_id, header_data, page_num,
          all_measurements, unique_measurements, line_idx, measurements,
          measurements_on_page, strategies_run, last_line, attempted, succeeded>>

doc_vars == <<cavity_id, header_data, page_num, all_measurements,
              unique_measurements>>

page_vars == <<line_idx, measurements, measurements_on_page, strategies_run,
               last_line>>

batch_vars == <<all_data, successful_extractions, response, succeeded>>

NoLine == [tl |-> << >>, records |-> << >>]

Init ==
    /\ files \in Requests
    /\ pc = "receive"
    /\ fi = 1
    /\ all_data = << >>
    /\ successful_extractions = 0
    /\ errors = << >>
    /\ response = [status |-> 0]
    /\ open_docs = {}
    /\ closed_docs = {}
    /\ cavity_id = << >>
    /\ header_data = [first_page_text |-> << >>]
    /\ page_num = 0
    /\ all_measurements = << >>
    /\ unique_measurements = << >>
    /\ line_idx = 0
    /\ measurements = << >>
    /\ measurements_on_page = << >>
    /\ strategies_run = << >>
    /\ last_line = NoLine
    /\ attempted = {}
    /\ succeeded = << >>

file == files[fi]

\* doc[page_num]
page == file.pages[page_num + 1]

(***************************************************************************)
(* process_pdf: request checks                                             *)
(***************************************************************************)
\* 'files' not in request.files
NoFilesProvided ==
    /\ pc = "receive"
    /\ files = << >>
    /\ response' = [status |-> 400, error |-> "No files provided"]
    /\ pc' = "done"
    /\ UNCHANGED <<files, fi, all_data, successful_extractions, errors,
                   open_docs, closed_docs, doc_vars, page_vars, attempted,
                   succeeded>>

\* all(f.filename == '' for f in files)
NoFilesSelected ==
    /\ pc = "receive"
    /\ files # << >>
    /\ \A i \in 1..Len(files) : files[i].filename = << >>
    /\ response' = [status |-> 400, error |-> "No files selected"]
    /\ pc' = "done"
    /\ UNCHANGED <<files, fi, all_data, successful_extractions, errors,
                   open_docs, closed_docs, doc_vars, page_vars, attempted,
                   succeeded>>

BeginLoop ==
    /\ pc = "receive"
    /\ files # << >>
    /\ \E i \in 1..Len(files) : files[i].filename # << >>
    /\ pc' = "file"
    /\ UNCHANGED <<files, fi, errors, open_docs, closed_docs, doc_vars,
                   page_vars, attempted, batch_vars>>

(***************************************************************************)
(* process_pdf: the loop over the files                                    *)
(***************************************************************************)
\* A faulty variant of ContinueWith: a failed file ends the loop
ContinueWith_Break(i, n) == n + 1

\* `continue`: the loop goes on with the next file
ContinueWith(i, n) == i + 1

\* errors.append(f"{filename}: {message}") followed by continue
FileError(message) ==
    /\ errors' = Append(errors, [filename |-> file.filename, message |-> message])
    /\ fi' = ContinueWith(fi, Len(files))
    /\ pc' = "file"

\* if file and file.filename != '': ... (no else branch)
SkipUnnamed ==
    /\ pc = "file" /\ fi <= Len(files)
    /\ file.filename = << >>
    /\ fi' = fi + 1
    /\ attempted' = attempted \cup {fi}
    /\ UNCHANGED <<files, pc, errors, open_docs, closed_docs, doc_vars,
                   page_vars, batch_vars>>

RejectType ==
    /\ pc = "file" /\ fi <= Len(files)
    /\ file.filename # << >>
    /\ ~allowed_file(file.filename)
    /\ FileError("Invalid file type")
    /\ attempted' = attempted \cup {fi}
    /\ UNCHANGED <<files, open_docs, closed_docs, doc_vars, page_vars,
                   batch_vars>>

RejectSize ==
    /\ pc = "file" /\ fi <= Len(files)
    /\ file.filename # << >>
    /\ allowed_file(file.filename)
    /\ file.size > MaxBytes
    /\ FileError("File too large (>10MB)")
    /\ attempted' = attempted \cup {fi}
    /\ UNCHANGED <<files, open_docs, closed_docs, doc_vars, page_vars,
                   batch_vars>>

\* fitz.open raises; process_pdf_data re-raises; process_pdf records it
OpenFails ==
    /\ pc = "file" /\ fi <= Len(files)
    /\ file.filename # << >>
    /\ allowed_file(file.filename)
    /\ file.size <= MaxBytes
    /\ file.corrupt
    /\ FileError("Error opening PDF")
    /\ attempted' = attempted \cup {fi}
    /\ UNCHANGED <<files, open_docs, closed_docs, doc_vars, page_vars,
                   batch_vars>>

\* doc = fitz.open(...); cavity_id = extract_cavity_number_from_filename(...)
OpenDocument ==
    /\ pc = "file" /\ fi <= Len(files)
    /\ file.filename # << >>
    /\ allowed_file(file.filename)
    /\ file.size <= MaxBytes
    /\ ~file.corrupt
    /\ open_docs' = open_docs \cup {fi}
    /\ cavity_id' = extract_cavity_number_from_filename(file.filename)
    /\ attempted' = attempted \cup {fi}
    /\ pc' = "first_page"
    /\ UNCHANGED <<files, fi, errors, closed_docs, header_data, page_num,
                   all_measurements, unique_measurements, page_vars,
                   batch_vars>>

\* doc[0].get_text("text") raises (no page 0, or the page cannot be read);
\* the exception leaves process_pdf_data and is recorded by process_pdf
FirstPageFails ==
    /\ pc = "first_page"
    /\ \/ Len(file.pages) = 0
       \/ Len(file.pages) > 0 /\ file.pages[1].bad = "text"
    /\ FileError("Error reading first page")
    /\ UNCHANGED <<files, open_docs, closed_docs, doc_vars, page_vars,
                   attempted, batch_vars>>

\* first_page_text = doc[0].get_text("text"); header_data = ...;
\* all_measurements = []; the page loop starts at index 1
FirstPage ==
    /\ pc = "first_page"
    /\ Len(file.pages) > 0 /\ file.pages[1].bad # "text"
    /\ header_data' = extract_header_data(file.pages[1].text)
    /\ all_measurements' = << >>
    /\ page_num' = 1
    /\ pc' = "page"
    /\ UNCHANGED <<files, fi, errors, open_docs, closed_docs, cavity_id,
                   unique_measurements, page_vars, attempted, batch_vars>>

(***************************************************************************)
(* extract_table_data_from_page, one page of the loop of process_pdf_data  *)
(***************************************************************************)
\* A faulty variant of NeedsFallback: the fallback always runs
NeedsFallback_Always(ms) == TRUE

\* `if not measurements:` -- the fallback runs only on an empty result
NeedsFallback(ms) == ms = << >>

\* measurements.extend(parsed_measurements) over the text lines
text_fallback(ms, lines) == ms \o PlainTextStrategy(lines)

\* page.get_text("words") raises inside the try: the except clause of
\* extract_table_data_from_page returns []
CoordsRaises ==
    /\ pc = "page" /\ page_num < Len(file.pages)
    /\ page.bad = "words"
    /\ strategies_run' = <<"coords">>
    /\ measurements' = << >>
    /\ measurements_on_page' = << >>
    /\ line_idx' = 0
    /\ last_line' = NoLine
    /\ pc' = "page_done"
    /\ UNCHANGED <<files, fi, errors, open_docs, closed_docs, doc_vars,
                   attempted, batch_vars>>

\* measurements = []; words = page.get_text("words"); lines = ...
CoordsBegin ==
    /\ pc = "page" /\ page_num < Len(file.pages)
    /\ page.bad # "words"
    /\ strategies_run' = <<"coords">>
    /\ measurements' = << >>
    /\ line_idx' = 0
    /\ last_line' = NoLine
    /\ pc' = "coords"
    /\ UNCHANGED <<files, fi, errors, open_docs, closed_docs, doc_vars,
                   measurements_on_page, attempted, batch_vars>>

\* One iteration of `for y in sorted(lines.keys())`
CoordsLineStep ==
    /\ pc = "coords"
    /\ line_idx < Len(LineKeys(page.words))
    /\ LET tl   == text_line(page.words, LineKeys(page.words)[line_idx + 1])
           recs == CoordsLine(tl)
       IN  /\ measurements' = measurements \o recs
           /\ last_line' = [tl |-> tl, records |-> recs]
    /\ line_idx' = line_idx + 1
    /\ UNCHANGED <<files, pc, fi, errors, open_docs, closed_docs, doc_vars,
                   measurements_on_page, strategies_run, attempted,
                   batch_vars>>

\* The coordinate strategy returned records: they are the page's result
CoordsAccepted ==
    /\ pc = "coords"
    /\ line_idx = Len(LineKeys(page.words))
    /\ ~NeedsFallback(measurements)
    /\ measurements_on_page' = measurements
    /\ pc' = "page_done"
    /\ UNCHANGED <<files, fi, errors, open_docs, closed_docs, doc_vars,
                   line_idx, measurements, strategies_run, last_line,
                   attempted, batch_vars>>

\* The fallback: text = page.get_text() raises, the except clause returns []
TextRaises ==
    /\ pc = "coords"
    /\ line_idx = Len(LineKeys(page.words))
    /\ NeedsFallback(measurements)
    /\ page.bad = "text"
    /\ strategies_run' = Append(strategies_run, "text")
    /\ measurements_on_page' = << >>
    /\ pc' = "page_done"
    /\ UNCHANGED <<files, fi, errors, open_docs, closed_docs, doc_vars,
                   line_idx, measurements, last_line, attempted, batch_vars>>

\* The fallback over the lines of page.get_text(), then return measurements
TextFallback ==
    /\ pc = "coords"
    /\ line_idx = Len(LineKeys(page.words))
    /\ NeedsFallback(measurements)
    /\ page.bad # "text"
    /\ strategies_run' = Append(strategies_run, "text")
    /\ measurements' = text_fallback(measurements, page.text)
    /\ measurements_on_page' = measurements'
    /\ pc' = "page_done"
    /\ UNCHANGED <<files, fi, errors, open_docs, closed_docs, doc_vars,
                   line_idx, last_line, attempted, batch_vars>>

\* if measurements_on_page: all_measurements.extend(measurements_on_page)
PageDone ==
    /\ pc = "page_done"
    /\ all_measurements' = all_measurements \o measurements_on_page
    /\ page_num' = page_num + 1
    /\ pc' = "page"
    /\ UNCHANGED <<files, fi, errors, open_docs, closed_docs, cavity_id,
                   header_data, unique_measurements, page_vars, attempted,
                   batch_vars>>

(***************************************************************************)
(* process_pdf_data after the page loop, and the rest of the loop body     *)
(***************************************************************************)
RemoveDuplicates ==
    /\ pc = "page" /\ page_num >= Len(file.pages)
    /\ unique_measurements' = Deduplicate(all_measurements)
    /\ pc' = "sort"
    /\ UNCHANGED <<files, fi, errors, open_docs, closed_docs, cavity_id,
                   header_data, page_num, all_measurements, page_vars,
                   attempted, batch_vars>>

\* The sort key never raises: every `no` for which isdigit() holds is a
\* run of decimal digits
SortByRowNumber ==
    /\ pc = "sort"
    /\ unique_measurements' = SortMeasurements(unique_measurements)
    /\ pc' = "close"
    /\ UNCHANGED <<files, fi, errors, open_docs, closed_docs, cavity_id,
                   header_data, page_num, all_measurements, page_vars,
                   attempted, batch_vars>>

\* doc.close()
CloseDocument ==
    /\ pc = "close"
    /\ open_docs' = open_docs \ {fi}
    /\ closed_docs' = closed_docs \cup {fi}
    /\ pc' = "store"
    /\ UNCHANGED <<files, fi, errors, doc_vars, page_vars, attempted,
                   batch_vars>>

\* all_data[key] = value: a present key keeps its place and takes the value
DictSet(d, key, value) ==
    IF \E i \in 1..Len(d) : d[i].key = key
    THEN [i \in 1..Len(d) |-> IF d[i].key = key THEN [key |-> key, value |-> value] ELSE d[i]]
    ELSE Append(d, [key |-> key, value |-> value])

\* result = process_pdf_data(...); all_data[cavity_id] = {...};
\* successful_extractions += 1   (processed_at, a clock reading, is left out)
StoreResult ==
    /\ pc = "store"
    /\ all_data' = DictSet(all_data, cavity_id,
                           [filename |-> file.filename,
                            header_info |-> header_data,
                            measurements |-> unique_measurements])
    /\ successful_extractions' = successful_extractions + 1
    /\ succeeded' = Append(succeeded, [file |-> fi, count |-> Len(unique_measurements)])
    /\ fi' = fi + 1
    /\ pc' = "file"
    /\ UNCHANGED <<files, errors, response, open_docs, closed_docs, doc_vars,
                   page_vars, attempted>>

(***************************************************************************)
(* process_pdf: the response                                               *)
(***************************************************************************)
RECURSIVE SumOfCounts(_)
SumOfCounts(d) ==
    IF d = << >> THEN 0
    ELSE Len(Head(d).value.measurements) + SumOfCounts(Tail(d))

DictKeys(d) == [i \in 1..Len(d) |-> d[i].key]

RespondFailure ==
    /\ pc = "file" /\ fi > Len(files)
    /\ successful_extractions = 0
    /\ response' = [status |-> 400,
                    error |-> "No files were successfully processed",
                    errors |-> errors]
    /\ pc' = "done"
    /\ UNCHANGED <<files, fi, all_data, successful_extractions, errors,
                   open_docs, closed_docs, doc_vars, page_vars, attempted,
                   succeeded>>

\* "warnings" is only present when errors is non-empty: << >> stands for
\* the absent key
RespondSuccess ==
    /\ pc = "file" /\ fi > Len(files)
    /\ successful_extractions # 0
    /\ response' = [status |-> 200,
                    success |-> TRUE,
                    summary |-> [files_processed |-> successful_extractions,
                                 total_files |-> Len(files),
                                 cavities_found |-> DictKeys(all_data),
                                 total_measurements |-> SumOfCounts(all_data)],
                    data |-> all_data,
                    warnings |-> errors]
    /\ pc' = "done"
    /\ UNCHANGED <<files, fi, all_data, successful_extractions, errors,
                   open_docs, closed_docs, doc_vars, page_vars, attempted,
                   succeeded>>

Next ==
    \/ NoFilesProvided
    \/ NoFilesSelected
    \/ BeginLoop
    \/ SkipUnnamed
    \/ RejectType
    \/ RejectSize
    \/ OpenFails
    \/ OpenDocument
    \/ FirstPageFails
    \/ FirstPage
    \/ CoordsRaises
    \/ CoordsBegin
    \/ CoordsLineStep
    \/ CoordsAccepted
    \/ TextRaises
    \/ TextFallback
    \/ PageDone
    \/ RemoveDuplicates
    \/ SortByRowNumber
    \/ CloseDocument
    \/ StoreResult
    \/ RespondFailure
    \/ RespondSuccess

Spec == Init /\ [][Next]_vars

TypeOK ==
    /\ pc \in {"receive", "file", "first_page", "page", "coords", "page_done",
               "sort", "close", "store", "done"}
    /\ fi \in 1..(Len(files) + 1)
    /\ successful_extractions \in 0..Len(files)
    /\ open_docs \subseteq 1..Len(files)
    /\ closed_docs \subseteq 1..Len(files)

(***************************************************************************)
(* Properties                                                              *)
(***************************************************************************)
\* The measurement lists that have left process_pdf_data: the one being
\* returned, and those already stored in all_data
ReturnedLists ==
    {all_data[k].value.measurements : k \in 1..Len(all_data)}
    \cup (IF pc \in {"close", "store"} THEN {unique_measurements} ELSE {})

Named(i) == files[i].filename # << >>

\* What the uploaded file is, read off the request alone: a file fails when
\* its type or size is rejected, its bytes do not open, or its first page
\* cannot be read
FileFails(i) ==
    /\ Named(i)
    /\ \/ ~allowed_file(files[i].filename)
       \/ files[i].size > MaxBytes
       \/ files[i].corrupt
       \/ Len(files[i].pages) = 0
       \/ files[i].pages[1].bad = "text"

FileSucceeds(i) == Named(i) /\ ~FileFails(i)

\* C1: every returned measurement list is ascending in `no` read as an
\* integer, a `no` that is not digit-only counting as 0 and so standing
\* before every record with a positive `no`.
C1_SortedByNo ==
    \A ms \in ReturnedLists :
        /\ \A i, j \in 1..Len(ms) :
               i < j => (IF isdigit(ms[i].no) THEN int(ms[i].no) ELSE 0)
                        <= (IF isdigit(ms[j].no) THEN int(ms[j].no) ELSE 0)
        /\ \A i, j \in 1..Len(ms) :
               (~isdigit(ms[i].no) /\ isdigit(ms[j].no) /\ int(ms[j].no) > 0)
               => i < j

\* A returned list of at least four records that was accumulated out of
\* order and holds a `no` that is not digit-only
C1_Witness ==
    /\ pc = "close"
    /\ Len(unique_measurements) >= 4
    /\ unique_measurements # Deduplicate(all_measurements)
    /\ \E i \in 1..Len(unique_measurements) : ~isdigit(unique_measurements[i].no)
    /\ \E i \in 1..Len(unique_measurements) : isdigit(unique_measurements[i].no)

\* C2 as stated: no two records of a returned list share (no, dimension).
C2_NoDimensionUnique ==
    \A ms \in ReturnedLists :
        \A i, j \in 1..Len(ms) :
            i # j => <<ms[i].no, ms[i].dimension>> # <<ms[j].no, ms[j].dimension>>

\* C2 amended: no two records of a returned list share
\* (no, dimension, measured_by_vendor).
C2_TripleUnique ==
    \A ms \in ReturnedLists :
        \A i, j \in 1..Len(ms) :
            i # j => <<ms[i].no, ms[i].dimension, ms[i].measured_by_vendor>>
                     # <<ms[j].no, ms[j].dimension, ms[j].measured_by_vendor>>

\* A returned list from which a duplicate was dropped and which keeps two
\* records that agree on no and dimension
C2_Witness ==
    /\ pc = "close"
    /\ Len(unique_measurements) < Len(all_measurements)
    /\ \E i, j \in 1..Len(unique_measurements) :
           /\ i # j
           /\ unique_measurements[i].no = unique_measurements[j].no
           /\ unique_measurements[i].dimension = unique_measurements[j].dimension

\* What the coordinate strategy yields on the current page
CoordsYield == extract_measurement_data_with_coords(page.words)

\* C3: on every page the coordinate strategy runs first; the plain-text
\* strategy runs exactly when the coordinate strategy ran through and
\* yielded nothing; the page's result is the records of the first strategy
\* that yielded any, never a mix, and is empty when neither did or when a
\* strategy raised; and no error of the page reaches process_pdf.
C3_FirstStrategyWins ==
    pc = "page_done" =>
        /\ strategies_run \in {<<"coords">>, <<"coords", "text">>}
        /\ (strategies_run = <<"coords", "text">>)
               <=> (page.bad # "words" /\ CoordsYield = << >>)
        /\ measurements_on_page =
               (IF page.bad = "words" THEN << >>
                ELSE IF CoordsYield # << >> THEN CoordsYield
                ELSE IF page.bad = "text" THEN << >>
                ELSE PlainTextStrategy(page.text))
        /\ fi \in open_docs
        /\ Len(errors) + successful_extractions
               = Cardinality({i \in 1..(fi - 1) : Named(i)})

\* A page on which the coordinate strategy found nothing and the plain-text
\* strategy supplied the records
C3_Witness ==
    /\ pc = "page_done"
    /\ strategies_run = <<"coords", "text">>
    /\ measurements_on_page # << >>
    /\ Len(page.words) > 0

FailedNames ==
    LET failed == SelectSeq([i \in 1..Len(files) |-> i], FileFails)
    IN  [k \in 1..Len(failed) |-> files[failed[k]].filename]

C5_HandleClosed ==
    \A i \in open_docs :
        /\ i = fi
        /\ pc \in {"first_page", "page", "coords", "page_done", "sort", "close"}

\* C6: every record of a returned list has a non-empty digit-only `no`, and
\* none has both dimension and measured_by_vendor empty.
C6_ValidRecords ==
    \A ms \in ReturnedLists :
        \A i \in 1..Len(ms) :
            /\ isdigit(ms[i].no)
            /\ ~(ms[i].dimension = << >> /\ ms[i].measured_by_vendor = << >>)

\* The documents whose only table row is r: r alone on the only page, or
\* on a page of its own among pages without rows
IsSingleRowDocument(pages, r) ==
    \E k \in 1..Len(pages) :
        /\ pages[k] = RowPage(r)
        /\ \A j \in 1..Len(pages) : j # k => pages[j] \in {PgHeader, PgEmpty}

\* C7: a document whose one table row is printed as no, optional sym,
\* dimension, upper, lower, optional pos, measured_by_vendor yields exactly
\* the record of that row.
C7_RowYieldsItsRecord ==
    pc = "store" =>
        \A r \in CanonicalRows :
            IsSingleRowDocument(file.pages, r) => unique_measurements = <<r>>

\* C8: a visual line with 12 to 14 measurement-relevant tokens yields two
\* records, one from each half split at floor(n/2); a line whose count is
\* neither 12..14 nor 6..7 yields none.
C8_DoubleRowSplit ==
    LET tl == last_line.tl
        n  == Len(tl)
    IN  /\ (n >= 12 /\ n <= 14) =>
               /\ Len(last_line.records) = 2
               /\ last_line.records[1].no = tl[1]
               /\ last_line.records[2].no = tl[(n \div 2) + 1]
        /\ (n > 0 /\ ~(n >= 12 /\ n <= 14) /\ ~(n >= 6 /\ n <= 7)) =>
               last_line.records = << >>

\* The positions of all_measurements that hold the first record of a key
FirstSeen ==
    {i \in 1..Len(all_measurements) :
        \A j \in 1..(i - 1) :
            <<all_measurements[j].no, all_measurements[j].dimension,
              all_measurements[j].measured_by_vendor>>
            # <<all_measurements[i].no, all_measurements[i].dimension,
                all_measurements[i].measured_by_vendor>>}

\* C9: after deduplication the list is the first-seen record of every key,
\* unchanged and in accumulation order; the sort only reorders them, so the
\* returned list holds exactly those records, one per key.
C9_FirstSeenWins ==
    /\ pc = "sort" =>
           unique_measurements
               = [k \in 1..Cardinality(FirstSeen) |->
                      all_measurements[SortedSet(FirstSeen)[k]]]
    /\ pc \in {"close", "store"} =>
           /\ {unique_measurements[i] : i \in 1..Len(unique_measurements)}
                  = {all_measurements[i] : i \in FirstSeen}
           /\ Len(unique_measurements) = Cardinality(FirstSeen)

\* A returned list that kept the first of two records with the same key
\* and different position tags
C9_Witness ==
    /\ pc = "close"
    /\ \E i, j \in 1..Len(all_measurements) :
           /\ i < j
           /\ i \in FirstSeen /\ j \notin FirstSeen
           /\ all_measurements[i].no = all_measurements[j].no
           /\ all_measurements[i].dimension = all_measurements[j].dimension
           /\ all_measurements[i].measured_by_vendor
                  = all_measurements[j].measured_by_vendor
           /\ all_measurements[i].pos # all_measurements[j].pos
           /\ \E k \in 1..Len(unique_measurements) :
                  unique_measurements[k] = all_measurements[i]

RECURSIVE SumCounts(_)
SumCounts(sq) == IF sq = << >> THEN 0 ELSE Head(sq).count + SumCounts(Tail(sq))

\* C10: a successful response has one `data` entry per file that succeeded:
\* files_processed is the number of keys of `data` and of cavities_found,
\* and total_measurements is the sum over all files that succeeded.
C10_EntryPerProcessedFile ==
    (pc = "done" /\ response.status = 200) =>
        /\ response.summary.files_processed = Len(response.data)
        /\ response.summary.files_processed = Len(response.summary.cavities_found)
        /\ response.summary.total_measurements = SumCounts(succeeded)

====
